---- MODULE Spec2Model ----
(***************************************************************************)
(* Model of the micro-expression analyzer core:                            *)
(*   stress_model.py          StressEstimator.predict                      *)
(*   feature_engineering.py   TemporalMetric, FeatureExtractor             *)
(*                                                                         *)
(* Numbers.  The code computes in floating point; the model computes the   *)
(* same expressions over exact rationals on a grid:                        *)
(*   - weights and scores are integers in units of 1/2000 (weights in      *)
(*     thousandths times normalised values in halves);                     *)
(*   - feature values and scales are integers in thousandths of the        *)
(*     feature's own unit;                                                 *)
(*   - a mean or a rate is the pair [num, den] the code divides.           *)
(* Floating point rounding is not modelled.                                *)
(***************************************************************************)
EXTENDS Integers, Sequences, FiniteSets, TLC

VARIABLES
    pc,                     \* position of the predict call: "idle", "call", "done"
    features,               \* the feature vector handed to predict
    result,                 \* the StressScore predict returned
    previous_blink_state,   \* FeatureExtractor.previous_blink_state
    metrics_history,        \* FeatureExtractor.metrics_history: name -> deque
    blink_events,           \* FeatureExtractor.blink_events: a TemporalMetric
    previous_nose_height,   \* <<>> for None, <<y>> otherwise
    out,                    \* the dict the last extract call returned
    frame,                  \* the frame of the last extract call (<<>> before it)
    added,                  \* every timestamp handed to TemporalMetric.add, in order
    closedRun,              \* consecutive sub-threshold frames ending at the last one
    history                 \* every frame handed to extract, in order

vars == <<pc, features, result, previous_blink_state, metrics_history,
          blink_events, previous_nose_height, out, frame, added, closedRun,
          history>>

predictVars == <<pc, features, result>>

extractorVars == <<previous_blink_state, metrics_history, blink_events,
                   previous_nose_height, out, frame, added, closedRun, history>>

Min(a, b) == IF a <= b THEN a ELSE b

Max(a, b) == IF a >= b THEN a ELSE b

Abs(a) == IF a >= 0 THEN a ELSE 0 - a

RECURSIVE SumSeq(_)
SumSeq(s) == IF s = <<>> THEN 0 ELSE Head(s) + SumSeq(Tail(s))

(***************************************************************************)
(* Bounds of the model.                                                    *)
(***************************************************************************)
\* Feature values range over -1 .. MaxVal half-scales (3 half-scales = 1.5).
MaxVal == 4
\* The blink window W ranges over 0 .. MaxW ticks of 0.03 s.
MaxW == 3
\* Frame timestamps range over 0 .. MaxTime ticks.
MaxTime == 4
\* At most MaxBlinks blink events are recorded in one run.
MaxBlinks == 3
\* At most MaxFrames frames are fed in a run that records its frames.
MaxFrames == 4

(***************************************************************************)
(* stress_model.py                                                         *)
(***************************************************************************)
OUTPUT_LABELS ==
    [calm |-> <<"green", "Calm">>,
     mild |-> <<"yellow", "Slight Stress">>,
     high |-> <<"red", "High Stress / Possible Deception Indicators">>]

KnownKeys ==
    {"eyebrow_raise", "lip_tension", "head_nod_intensity", "symmetry_delta",
     "blink_rate"}

\* A name the estimator holds no weight and no scale for.
Keys == KnownKeys \cup {"unknown"}

\* self.weights, in thousandths; .get(key, 0.0)
weights(key) ==
    CASE key = "eyebrow_raise" -> 300
      [] key = "lip_tension" -> 250
      [] key = "head_nod_intensity" -> 200
      [] key = "symmetry_delta" -> 150
      [] key = "blink_rate" -> 100
      [] OTHER -> 0

\* self.scalers, in thousandths of the feature's unit; .get(key, 1.0)
scalers(key) ==
    CASE key = "eyebrow_raise" -> 80
      [] key = "lip_tension" -> 1000
      [] key = "head_nod_intensity" -> 1500
      [] key = "symmetry_delta" -> 50
      [] key = "blink_rate" -> 30000
      [] OTHER -> 1000

\* self.thresholds, in units of 1/2000
thresholds == [calm |-> 700, mild |-> 1300]

\* value / scale, in halves (exact on the grid of half-scales)
normalized(key, value) == (2 * value) \div scalers(key)

\* capped, with a normalised value above 1.5 dropped instead of capped
capped_dropping(key, value) ==
    IF normalized(key, value) > 3 THEN 0 ELSE normalized(key, value)

\* min(value / scale, 1.5), in halves
capped(key, value) == Min(normalized(key, value), 3)

\* weight * min(value / scale, 1.5), in units of 1/2000
contribution(key, value) == weights(key) * capped(key, value)

\* the names in the order the loop of predict meets them (no sum of the
\* model depends on it)
KeyOrder ==
    <<"eyebrow_raise", "lip_tension", "head_nod_intensity", "symmetry_delta",
      "blink_rate", "unknown">>

RECURSIVE weighted_sum_from(_, _)
weighted_sum_from(f, i) ==
    IF i > Len(KeyOrder) THEN 0
    ELSE (IF KeyOrder[i] \in DOMAIN f
          THEN contribution(KeyOrder[i], f[KeyOrder[i]]) ELSE 0)
         + weighted_sum_from(f, i + 1)

\* the loop of predict: for key, value in features.items()
weighted_sum(f) == weighted_sum_from(f, 1)

\* np.clip(x, lo, hi)
clip(x, lo, hi) == Max(lo, Min(x, hi))

\* score_of, with the clip left out
score_of_unclipped(f) == weighted_sum(f)

\* float(np.clip(weighted_sum, 0.0, 1.5)), in units of 1/2000
score_of(f) == clip(weighted_sum(f), 0, 3000)

\* label_key, with <= for <
label_key_closed(score) ==
    IF score <= thresholds.calm THEN "calm"
    ELSE IF score <= thresholds.mild THEN "mild"
    ELSE "high"

\* the if / elif / else of predict
label_key(score) ==
    IF score < thresholds.calm THEN "calm"
    ELSE IF score < thresholds.mild THEN "mild"
    ELSE "high"

predict(f) ==
    LET score == score_of(f)
        key == label_key(score)
    IN  [score |-> score,
         icon |-> OUTPUT_LABELS[key][1],
         label |-> OUTPUT_LABELS[key][2],
         level |-> key]

\* The feature vector holding n[k] half-scales of each key k of n.
vector(n) == [k \in DOMAIN n |-> (n[k] * scalers(k)) \div 2]

NoResult == [score |-> 0, icon |-> "", label |-> "", level |-> ""]

(***************************************************************************)
(* feature_engineering.py: TemporalMetric                                  *)
(* Time is counted in ticks of 0.03 s, so that the floor of 1e-3 minutes   *)
(* in _compute_blink_rate is 2 ticks and a minute is 2000 ticks.           *)
(***************************************************************************)
\* evict, with >= for >
RECURSIVE evict_inclusive(_, _, _)
evict_inclusive(timestamps, timestamp, window_seconds) ==
    IF timestamps # <<>> /\ (timestamp - Head(timestamps)) >= window_seconds
    THEN evict_inclusive(Tail(timestamps), timestamp, window_seconds)
    ELSE timestamps

\* the while loop of add: pop from the left while the head is older than W
RECURSIVE evict(_, _, _)
evict(timestamps, timestamp, window_seconds) ==
    IF timestamps # <<>> /\ (timestamp - Head(timestamps)) > window_seconds
    THEN evict(Tail(timestamps), timestamp, window_seconds)
    ELSE timestamps

\* TemporalMetric.add
add(tm, timestamp) ==
    [tm EXCEPT !.timestamps =
        evict(Append(tm.timestamps, timestamp), timestamp, tm.window_seconds)]

\* TemporalMetric.count
count(tm) == Len(tm.timestamps)

(***************************************************************************)
(* feature_engineering.py: FeatureExtractor                                *)
(* A frame carries the scalars the landmark geometry yields: the two eye   *)
(* aspect ratios (hundredths), the eyebrow value, the mouth width/height   *)
(* ratio, the nose and chin heights, the symmetry score and the timestamp. *)
(***************************************************************************)
\* smoothing_window (the code's default is 5)
smoothing_window == 2

\* blink_threshold, in hundredths
blink_threshold == 23

MetricNames == {"eyebrow", "lip_tension", "nod", "symmetry"}

\* deque_append, with no eviction
deque_append_unbounded(dq, v, maxlen) == Append(dq, v)

\* deque(maxlen=n).append(v)
deque_append(dq, v, maxlen) ==
    IF Len(dq) >= maxlen THEN Append(Tail(dq), v) ELSE Append(dq, v)

\* np.mean(deque), as the pair the division is made of
mean(dq) == [num |-> SumSeq(dq), den |-> Len(dq)]

\* the literal 0.0
Zero == [num |-> 0, den |-> 1]

\* (left_ratio + right_ratio) * 0.5 < blink_threshold, both sides doubled
is_blinking(f) == (f.left_ratio + f.right_ratio) < 2 * blink_threshold

\* blink_edge, with the previous state forgotten
blink_edge_level(f, previous) == is_blinking(f)

\* is_blinking and not self.previous_blink_state
blink_edge(f, previous) == is_blinking(f) /\ ~previous

\* max(window_seconds / 60.0, 1e-3), in units of 1/2000 minute
minutes(tm) == Max(tm.window_seconds, 2)

\* self.blink_events.count / minutes, per minute
blink_rate_of(tm) == [num |-> count(tm) * 2000, den |-> minutes(tm)]

\* clip((raw_ratio - 5.0) / 55.0, 0.0, 1.0), in 55ths
tension(f) == clip(f.mouth_ratio - 5, 0, 55)

\* abs(chin_y - nose_y)
head_length(f) == Abs(f.chin_y - f.nose_y)

\* abs(nose_y - previous_nose_height) / max(head_length, 1e-5); the frames of
\* the model have head_length >= 1, where the floor of 1e-5 decides nothing
nod_delta(f, previous) == Abs(f.nose_y - previous) \div head_length(f)

\* nod_history, with a 0.0 pushed on the first call
nod_history_spurious(f, previous, dq) ==
    deque_append(dq, IF previous = <<>> THEN 0 ELSE nod_delta(f, previous[1]),
                 smoothing_window)

\* the nod deque after _compute_head_nod
nod_history(f, previous, dq) ==
    IF previous = <<>> THEN dq
    ELSE deque_append(dq, nod_delta(f, previous[1]), smoothing_window)

\* the value _compute_head_nod returns
nod_value(f, previous, dq) ==
    IF previous = <<>> THEN Zero ELSE mean(nod_history(f, previous, dq))

\* metrics_history after the four _compute_* calls of extract
history_after(f, previous, mh) ==
    [mh EXCEPT
        !["eyebrow"] = deque_append(@, f.eyebrow, smoothing_window),
        !["lip_tension"] = deque_append(@, tension(f), smoothing_window),
        !["nod"] = nod_history(f, previous, @),
        !["symmetry"] = deque_append(@, f.symmetry, smoothing_window)]

\* FeatureExtractor.extract: the four smoothed metrics, then the blink rate
extract(f) ==
    LET mh == history_after(f, previous_nose_height, metrics_history)
        edge == blink_edge(f, previous_blink_state)
        tm == IF edge THEN add(blink_events, f.timestamp) ELSE blink_events
    IN  /\ metrics_history' = mh
        /\ previous_nose_height' = <<f.nose_y>>
        /\ blink_events' = tm
        /\ previous_blink_state' = is_blinking(f)
        /\ out' = [eyebrow_raise |-> mean(mh["eyebrow"]),
                   lip_tension |-> mean(mh["lip_tension"]),
                   head_nod_intensity |->
                       nod_value(f, previous_nose_height, metrics_history["nod"]),
                   symmetry_delta |-> mean(mh["symmetry"]),
                   blink_rate |-> blink_rate_of(tm)]
        /\ frame' = <<f>>
        /\ added' = IF edge THEN Append(added, f.timestamp) ELSE added
        /\ closedRun' = IF is_blinking(f) THEN Min(closedRun + 1, 3) ELSE 0

NoOutput ==
    [eyebrow_raise |-> Zero, lip_tension |-> Zero, head_nod_intensity |-> Zero,
     symmetry_delta |-> Zero, blink_rate |-> Zero]

\* FeatureExtractor.__init__ with blink_window_seconds = W
InitExtractor(W) ==
    /\ previous_blink_state = FALSE
    /\ metrics_history = [m \in MetricNames |-> <<>>]
    /\ blink_events = [window_seconds |-> W, timestamps |-> <<>>]
    /\ previous_nose_height = <<>>
    /\ out = NoOutput
    /\ frame = <<>>
    /\ added = <<>>
    /\ closedRun = 0
    /\ history = <<>>

InitPredict ==
    /\ pc = "idle"
    /\ features = <<>>
    /\ result = NoResult

(***************************************************************************)
(* Specification of predict: the input is any feature vector of the grid,   *)
(* the unknown name, when present, at either end of it.                    *)
(***************************************************************************)
InitCall ==
    /\ pc = "call"
    /\ \E S \in SUBSET Keys :
          \E n \in [S -> (0 - 1)..MaxVal] :
              /\ "unknown" \in S => n["unknown"] \in {0 - 1, MaxVal}
              /\ features = vector(n)
    /\ result = NoResult
    /\ InitExtractor(MaxW)

Predict ==
    /\ pc = "call"
    /\ result' = predict(features)
    /\ pc' = "done"
    /\ UNCHANGED features
    /\ UNCHANGED extractorVars

SpecPredict == InitCall /\ [][Predict]_vars

\* C1: for every feature vector (any subset of the names, negative and large
\* values included) the score predict returns lies in [0, 1.5], that is in
\* 0 .. 3000 units of 1/2000.
C1_ScoreInRange ==
    pc = "done" => result.score >= 0 /\ result.score <= 3000

\* predict has returned for a vector whose weighted sum is negative, holding
\* an unknown name, and for which the clip decided the score
C1_Witness ==
    /\ pc = "done"
    /\ "unknown" \in DOMAIN features
    /\ weighted_sum(features) < 0
    /\ result.score = 0

\* C2: the level is a function of the score alone, on half-open intervals:
\* calm iff score < 0.35, mild iff 0.35 <= score < 0.65, high iff
\* score >= 0.65 (0.35 = 700 and 0.65 = 1300 units of 1/2000), and the label
\* and the icon are the fixed lookup of the level.
C2_LevelOfScore ==
    pc = "done" =>
        /\ result.level = "calm" <=> result.score < 700
        /\ result.level = "mild" <=> (700 <= result.score /\ result.score < 1300)
        /\ result.level = "high" <=> result.score >= 1300
        /\ result.level \in {"calm", "mild", "high"}
        /\ result.icon = OUTPUT_LABELS[result.level][1]
        /\ result.label = OUTPUT_LABELS[result.level][2]

\* predict has returned a score of exactly 0.35, classified mild
C2_Witness ==
    pc = "done" /\ result.score = 700 /\ result.level = "mild"

\* predict has returned a score of exactly 0.65, classified high
C2_WitnessHigh ==
    pc = "done" /\ result.score = 1300 /\ result.level = "high"

\* C6: predict is monotone in each feature: a vector that agrees with the
\* one scored on every entry but one, and is greater or equal on that one,
\* scores greater or equal.
C6_Monotone ==
    pc = "done" =>
        \A k \in DOMAIN features :
            \A n \in (0 - 1)..MaxVal :
                LET v == (n * scalers(k)) \div 2
                IN  v >= features[k] =>
                        score_of([features EXCEPT ![k] = v]) >= result.score

\* predict has returned for a vector one of whose features, raised, raises
\* the score, and another of whose features, raised past the cap, leaves it
C6_Witness ==
    /\ pc = "done"
    /\ \E k \in DOMAIN features :
          /\ features[k] < scalers(k)
          /\ score_of([features EXCEPT ![k] = scalers(k)]) > result.score
    /\ \E k \in DOMAIN features :
          /\ 2 * features[k] = 3 * scalers(k)
          /\ score_of([features EXCEPT ![k] = 2 * scalers(k)]) = result.score
          /\ weights(k) > 0

(***************************************************************************)
(* Specification of the blink tracker: a still face whose eyes open and    *)
(* close, frames at non-decreasing timestamps, any window W.               *)
(***************************************************************************)
now == IF frame = <<>> THEN 0 ELSE frame[1].timestamp

\* (left, right) eye aspect ratios: open, closed, average exactly 0.23
EyeRatios == {<<30, 30>>, <<20, 20>>, <<20, 26>>}

BlinkFrames ==
    {[timestamp |-> t, left_ratio |-> e[1], right_ratio |-> e[2], eyebrow |-> 0,
      mouth_ratio |-> 5, nose_y |-> 0, chin_y |-> 1, symmetry |-> 0] :
        t \in now..MaxTime, e \in EyeRatios}

InitBlink ==
    /\ InitPredict
    /\ \E W \in 0..MaxW : InitExtractor(W)

ExtractBlink ==
    \E f \in BlinkFrames :
        /\ blink_edge(f, previous_blink_state) => Len(added) < MaxBlinks
        /\ extract(f)
        /\ UNCHANGED history
        /\ UNCHANGED predictVars

SpecBlink == InitBlink /\ [][ExtractBlink]_vars

W == blink_events.window_seconds

\* the recorded blink events whose age at time t is at most W
InWindow(t) == {i \in 1..Len(added) : t - added[i] <= W}

\* s without its first n elements
Drop(s, n) == SubSeq(s, n + 1, Len(s))

\* C3: after any sequence of add calls with non-decreasing timestamps and
\* W >= 0, the stored timestamps are exactly the added ones whose age
\* relative to the latest added one is at most W, and count is their number.
C3_CountIsWindow ==
    /\ added = <<>> => blink_events.timestamps = <<>>
    /\ added # <<>> =>
          /\ count(blink_events) = Cardinality(InWindow(added[Len(added)]))
          /\ blink_events.timestamps =
                Drop(added, Len(added) - Cardinality(InWindow(added[Len(added)])))

\* three events added: the first older than W and evicted, the second of age
\* exactly W and kept
C3_Witness ==
    /\ Len(added) = 3
    /\ W > 0
    /\ added[3] - added[2] = W
    /\ added[3] - added[1] > W
    /\ count(blink_events) = 2

\* the average eye ratio of frame f is below the threshold of 0.23
SubThreshold(f) == f.left_ratio + f.right_ratio < 2 * 23

\* C4: a blink event is added exactly on the frames whose average eye ratio
\* is below the threshold while the frame before was not (or there was
\* none), with that frame's timestamp, and on no other frame.
C4_BlinkOnEdge ==
    [][/\ frame' # <<>>
       /\ IF SubThreshold(frame'[1]) /\ (frame = <<>> \/ ~SubThreshold(frame[1]))
          THEN added' = Append(added, frame'[1].timestamp)
          ELSE added' = added]_vars

\* the eyes have stayed closed for three frames, the last later than the
\* first, and one event is recorded, stamped with the first
C4_Witness ==
    /\ closedRun = 3
    /\ Len(added) = 1
    /\ frame[1].timestamp > added[1]
    /\ count(blink_events) = 1

\* C5: the blink rate extract returns is count / (W/60) with count the
\* number of recorded blinks within W of the frame's timestamp (stated for
\* W >= 0.06 s, where W/60 is not below the floor of 1e-3 minutes).
C5_RateOverTrailingWindow ==
    (frame # <<>> /\ W >= 2) =>
        out.blink_rate.num * W = 2000 * Cardinality(InWindow(now)) * out.blink_rate.den

\* C10 as claimed: once a blink is recorded, count >= 1 and the blink rate
\* is at least 1 / (W/60), for W > 0.
C10_RateAtLeastOnePerWindow ==
    (added # <<>> /\ W > 0) =>
        /\ count(blink_events) >= 1
        /\ out.blink_rate.num * W >= 2000 * out.blink_rate.den

\* C10, amended: once a blink is recorded, count >= 1 and every blink rate
\* returned is at least 1 / max(W/60, 1e-3), so never 0 again.
C10_RateAtLeastOnePerFlooredWindow ==
    added # <<>> =>
        /\ count(blink_events) >= 1
        /\ out.blink_rate.num * (IF W >= 2 THEN W ELSE 2) >= 2000 * out.blink_rate.den
        /\ out.blink_rate.num > 0

\* the eyes are open, the last blink is older than W, and the rate returned
\* is still positive
C10_Witness ==
    /\ added # <<>>
    /\ ~previous_blink_state
    /\ now - added[Len(added)] > W
    /\ out.blink_rate.num > 0

(***************************************************************************)
(* Specification of the smoothers: open eyes, a face that changes shape    *)
(* and nods, every frame recorded.                                         *)
(***************************************************************************)
\* (eyebrow, mouth ratio, symmetry): neutral, brows raised, lips pressed,
\* asymmetric, all three
Shapes == {<<0, 5, 0>>, <<1, 5, 0>>, <<0, 60, 0>>, <<0, 5, 1>>, <<1, 70, 1>>}

SmoothFrames ==
    {[timestamp |-> now, left_ratio |-> 30, right_ratio |-> 30, eyebrow |-> s[1],
      mouth_ratio |-> s[2], nose_y |-> y, chin_y |-> y + 1, symmetry |-> s[3]] :
        s \in Shapes, y \in 0..1}

InitSmooth ==
    /\ InitPredict
    /\ InitExtractor(MaxW)

ExtractSmooth ==
    \E f \in SmoothFrames :
        /\ Len(history) < MaxFrames
        /\ extract(f)
        /\ history' = Append(history, f)
        /\ UNCHANGED predictVars

SpecSmooth == InitSmooth /\ [][ExtractSmooth]_vars

\* the raw values pushed so far for a metric, read off the frames fed
Pushed(name) ==
    CASE name = "eyebrow" -> [i \in 1..Len(history) |-> history[i].eyebrow]
      [] name = "lip_tension" -> [i \in 1..Len(history) |-> tension(history[i])]
      [] name = "symmetry" -> [i \in 1..Len(history) |-> history[i].symmetry]
      [] name = "nod" ->
            [i \in 1..(Len(history) - 1) |->
                Abs(history[i + 1].nose_y - history[i].nose_y)
                    \div Abs(history[i + 1].chin_y - history[i + 1].nose_y)]

\* the last n elements of s
LastN(s, n) == SubSeq(s, Len(s) - n + 1, Len(s))

\* the entry of the returned dict a metric's window feeds
FeatureOf(name) ==
    CASE name = "eyebrow" -> "eyebrow_raise"
      [] name = "lip_tension" -> "lip_tension"
      [] name = "symmetry" -> "symmetry_delta"
      [] name = "nod" -> "head_nod_intensity"

C9_HeadNod ==
    LET n == Len(history)
        dq == metrics_history["nod"]
    IN  /\ n = 0 => (previous_nose_height = <<>> /\ dq = <<>>)
        /\ n >= 1 =>
              /\ previous_nose_height = <<history[n].nose_y>>
              /\ Len(dq) = Min(n - 1, smoothing_window)
        /\ n = 1 => (out.head_nod_intensity.num = 0 /\ dq = <<>>)
        /\ n >= 2 =>
              dq[Len(dq)] = Abs(history[n].nose_y - history[n - 1].nose_y)
                                \div Abs(history[n].chin_y - history[n].nose_y)

\* the first frame had its nose away from 0 and pushed nothing; K + 2
\* frames later the nod window is full and its last entry is a real nod
C9_Witness ==
    /\ Len(history) = smoothing_window + 2
    /\ history[1].nose_y = 1
    /\ Len(metrics_history["nod"]) = smoothing_window
    /\ metrics_history["nod"][smoothing_window] = 1

\* one frame fed, its nose away from 0: the nod returned is 0.0 and the nod
\* window is empty
C9_WitnessFirst ==
    /\ Len(history) = 1
    /\ history[1].nose_y = 1
    /\ out.head_nod_intensity.num = 0
    /\ metrics_history["nod"] = <<>>

====
